---- MODULE Spec2Model ----
(***************************************************************************)
(* SO(3) representation system of dart/math (SO3Operations.hpp,            *)
(* SO3AxisAngle.hpp, SO3RotationVector) as a state machine over exact      *)
(* values.                                                                 *)
(*                                                                         *)
(* Scalars.  The code computes in floating point.  The model computes      *)
(* exactly on the rotation group of the cube (24 rotations: the identity,  *)
(* quarter and half turns about the 6 face axes, thirds of a turn about    *)
(* the 8 vertex axes, half turns about the 12 edge axes), on which every   *)
(* quantity the code forms is an exact number:                             *)
(*   - an angle is an integer number of units of pi/6 (so pi is 6 units    *)
(*     and a full turn is 12 units);                                       *)
(*   - a unit axis is written as its integer direction s in {-1,0,1}^3,    *)
(*     standing for s / sqrt(s.s);                                         *)
(*   - a rotation vector is [v, r], standing for the 3-vector              *)
(*     (pi/6) * v / sqrt(r), with r = 1 when v is the zero vector;         *)
(*   - a matrix entry is an integer;                                       *)
(*   - a quaternion coefficient is <<a, b>>, standing for                  *)
(*     (a + b*sqrt(2)) / 4.                                                *)
(* Two distinct values of this grid differ by far more than any tolerance  *)
(* below 1/2, and equal values differ by 0, so Eigen's isApprox on grid    *)
(* values is decided by the exact distance.                                *)
(*                                                                         *)
(* Eigen.  Eigen::AngleAxis, Eigen::Quaternion and Eigen::Matrix are the   *)
(* raw data types of the code; their conversions and products are modelled *)
(* by the formulas of Eigen 3.3 (Geometry/AngleAxis.h, Quaternion.h,       *)
(* RotationBase.h), at the places where the code invokes them.             *)
(***************************************************************************)
EXTENDS Integers, Sequences, FiniteSets, TLC

VARIABLES
  A, B, C,       \* the operands of the run, each an orientation value [rep, data]
  pc,            \* the step of the run
  mid, back,     \* A converted to another representation, and converted back
  via,           \* the template specialization the last dispatch selected
  AB, BC,        \* A * B and B * C
  AB_C, A_BC,    \* (A * B) * C and A * (B * C)
  Inv, Prod,     \* A.getInverse() and A * A.getInverse()
  Idv,           \* B after B.setIdentity()
  AI, IA,        \* A * Idv and Idv * A
  verdict,       \* the result of the last isApprox
  pre,           \* the operands as they were before the last in-place operation
  heap,          \* the storage of the raw data members, by cell
  objs,          \* the objects a and b: representation and cell of mRepData
  last,          \* the last operation on an object, and the heap before it
  ops,           \* the number of mutations performed
  skel,          \* the fields of a model3d::Skeleton
  elems          \* the fields of the nodes, joints, dofs, transforms and handles

vars ==
  <<A, B, C, pc, mid, back, via, AB, BC, AB_C, A_BC, Inv, Prod, Idv, AI, IA, verdict, pre,
    heap, objs, last, ops, skel, elems>>

(***************************************************************************)
(* Bounds                                                                  *)
(***************************************************************************)
\* angles of AxisAngle inputs range over -MaxSteps..MaxSteps steps of the
\* axis' own step (quarter turn, third of a turn or half turn)
MaxSteps == 4

\* the number of mutations of the objects a and b in a run
MaxOps == 2

\* angles of the operands of the group operations range over
\* -GroupSteps..GroupSteps steps
GroupSteps == 3

(***************************************************************************)
(* Representation tags                                                     *)
(***************************************************************************)
RotationMatrixRep == "RotationMatrixRep"
AxisAngleRep == "AxisAngleRep"
QuaternionRep == "QuaternionRep"
RotationVectorRep == "RotationVectorRep"

SO3Representation ==
  {RotationMatrixRep, AxisAngleRep, QuaternionRep, RotationVectorRep}

DefaultSO3CanonicalRep == RotationMatrixRep

\* traits<SO3<S, Rep>>::IsCoordinates
IsCoordinates(Rep) == Rep = RotationVectorRep

(***************************************************************************)
(* Exact scalars                                                           *)
(***************************************************************************)
Sgn(k) == IF k > 0 THEN 1 ELSE IF k < 0 THEN -1 ELSE 0

Abs(k) == IF k < 0 THEN -k ELSE k

Dot(u, v) == u[1]*v[1] + u[2]*v[2] + u[3]*v[3]

\* the exact square root of a perfect square
Isqrt(n) == CHOOSE k \in 0..n : k*k = n

\* coefficients (a + b*sqrt(2))/4
QInt(k) == <<4*k, 0>>

QAdd(p, q) == <<p[1] + q[1], p[2] + q[2]>>

QNeg(p) == <<-p[1], -p[2]>>

QSub(p, q) == QAdd(p, QNeg(q))

QMul(p, q) ==
  <<(p[1]*q[1] + 2*p[2]*q[2]) \div 4, (p[1]*q[2] + p[2]*q[1]) \div 4>>

QScale(k, p) == <<k*p[1], k*p[2]>>

\* the sign of (a + b*sqrt(2))/4
QSgn(p) ==
  IF Sgn(p[1]) = Sgn(p[2]) THEN Sgn(p[1])
  ELSE IF p[1] = 0 THEN Sgn(p[2])
  ELSE IF p[2] = 0 THEN Sgn(p[1])
  ELSE IF p[1]*p[1] > 2*p[2]*p[2] THEN Sgn(p[1]) ELSE Sgn(p[2])

QAbs(p) == IF QSgn(p) < 0 THEN QNeg(p) ELSE p

\* the integer a coefficient stands for (matrix entries built from
\* quaternion coefficients are integers)
QToInt(p) == p[1] \div 4

\* std::sqrt on the radicands the conversions meet: 1, 2 and 4
QSqrt(n) == CASE n = 1 -> <<4, 0>> [] n = 2 -> <<0, 4>> [] n = 4 -> <<8, 0>>

\* Scalar(0.5) * t
QHalf(p) == <<p[1] \div 2, p[2] \div 2>>

\* Scalar(0.5) / t for t = 1, sqrt(2), 2
QHalfOver(t) ==
  CASE t = <<4, 0>> -> <<2, 0>> [] t = <<0, 4>> -> <<0, 1>> [] t = <<8, 0>> -> <<1, 0>>

(***************************************************************************)
(* Trigonometry on the grid (angles in units of pi/6)                      *)
(***************************************************************************)
\* 2*cos(t)
Cos2(t) ==
  CASE t % 12 = 0 -> 2 [] t % 12 = 3 -> 0 [] t % 12 = 4 -> -1
    [] t % 12 = 6 -> -2 [] t % 12 = 8 -> -1 [] t % 12 = 9 -> 0

\* 2*sin(t)/sqrt(r), for an angle t a rotation about an axis of squared
\* length r can have: quarter turns for r = 1, half turns for r = 2,
\* thirds of a turn for r = 3
SinOverRoot2(r, t) ==
  CASE t % 6 = 0 -> 0
    [] r = 1 /\ t % 12 = 3 -> 2
    [] r = 1 /\ t % 12 = 9 -> -2
    [] r = 3 /\ t % 12 = 4 -> 1
    [] r = 3 /\ t % 12 = 8 -> -1

\* cos(t/2), as a coefficient
CosHalf(t) ==
  CASE t % 24 = 0 -> <<4, 0>> [] t % 24 = 3 -> <<0, 2>> [] t % 24 = 4 -> <<2, 0>>
    [] t % 24 = 6 -> <<0, 0>> [] t % 24 = 8 -> <<-2, 0>> [] t % 24 = 9 -> <<0, -2>>
    [] t % 24 = 12 -> <<-4, 0>> [] t % 24 = 15 -> <<0, -2>> [] t % 24 = 16 -> <<-2, 0>>
    [] t % 24 = 18 -> <<0, 0>> [] t % 24 = 20 -> <<2, 0>> [] t % 24 = 21 -> <<0, 2>>

\* sin(t/2)/sqrt(r), as a coefficient
SinHalfOverRoot(r, t) ==
  CASE t % 12 = 0 -> <<0, 0>>
    [] r = 1 /\ t % 24 = 3 -> <<0, 2>>
    [] r = 1 /\ t % 24 = 6 -> <<4, 0>>
    [] r = 1 /\ t % 24 = 9 -> <<0, 2>>
    [] r = 1 /\ t % 24 = 15 -> <<0, -2>>
    [] r = 1 /\ t % 24 = 18 -> <<-4, 0>>
    [] r = 1 /\ t % 24 = 21 -> <<0, -2>>
    [] r = 2 /\ t % 24 = 6 -> <<0, 2>>
    [] r = 2 /\ t % 24 = 18 -> <<0, -2>>
    [] r = 3 /\ t % 24 = 4 -> <<2, 0>>
    [] r = 3 /\ t % 24 = 8 -> <<2, 0>>
    [] r = 3 /\ t % 24 = 16 -> <<-2, 0>>
    [] r = 3 /\ t % 24 = 20 -> <<-2, 0>>

\* 2*atan2(n, |w|) for a unit quaternion with |w| = absw and |vec| = n > 0
TwiceAtan2(absw) ==
  CASE absw = <<0, 0>> -> 6 [] absw = <<2, 0>> -> 4 [] absw = <<0, 2>> -> 3

(***************************************************************************)
(* Raw data                                                                *)
(***************************************************************************)
Vec3(x, y, z) == <<x, y, z>>

UnitX == <<1, 0, 0>>

\* Eigen::Matrix<S, 3, 3> with the given rows
Matrix3(rows) == [m |-> rows]

Identity3 == Matrix3(<<<<1, 0, 0>>, <<0, 1, 0>>, <<0, 0, 1>>>>)

\* Eigen::AngleAxis<S>(angle, axis)
AngleAxis(angle, axis) == [axis |-> axis, angle |-> angle]

\* Eigen::Quaternion<S>(w, x, y, z)
Quaternion(w, x, y, z) == [w |-> w, x |-> x, y |-> y, z |-> z]

\* the 3-vector (pi/6) * v / sqrt(r)
RotVec(v, r) == IF v = <<0, 0, 0>> THEN [v |-> v, r |-> 1] ELSE [v |-> v, r |-> r]

\* data.norm() of a rotation vector, in units of pi/6
norm(w) == Isqrt(Dot(w.v, w.v) \div w.r)

\* the squared length of the integer direction of a unit axis
AxisSq(axis) == Dot(axis, axis)

MatMul(M, N) ==
  Matrix3([i \in 1..3 |-> [j \in 1..3 |->
             M.m[i][1]*N.m[1][j] + M.m[i][2]*N.m[2][j] + M.m[i][3]*N.m[3][j]]])

Transpose(M) == Matrix3([i \in 1..3 |-> [j \in 1..3 |-> M.m[j][i]]])

Trace(M) == M.m[1][1] + M.m[2][2] + M.m[3][3]

(***************************************************************************)
(* exp and log                                                             *)
(***************************************************************************)
\* The matrix the coefficient assembly of exp and of AngleAxis::
\* toRotationMatrix produces from the unit direction d/sqrt(r), 2*cos,
\* 2*(1 - cos) and 2*sin/sqrt(r): with w = theta*d/sqrt(r),
\*   beta*w[i]*w[j] = (1 - cos)*d[i]*d[j]/r  and  alpha*w[k] = sin*d[k]/sqrt(r)
Rodrigues(d, r, c2, s2) ==
  LET b2(i, j) == ((2 - c2) * d[i] * d[j]) \div r
      a2(k) == s2 * d[k]
  IN  Matrix3(
        << << (b2(1,1) + c2) \div 2, (b2(1,2) - a2(3)) \div 2, (b2(3,1) + a2(2)) \div 2 >>,
           << (b2(1,2) + a2(3)) \div 2, (b2(2,2) + c2) \div 2, (b2(2,3) - a2(1)) \div 2 >>,
           << (b2(3,1) - a2(2)) \div 2, (b2(2,3) + a2(1)) \div 2, (b2(3,3) + c2) \div 2 >> >>)

\* an exp that takes the closed-form coefficients whatever theta is, and
\* divides by theta = 0: what ExpTotalAndExactAtZero tells from exp
exp_without_small_angle_branch(w) ==
  LET theta == norm(w)
  IN  IF theta > 0
        THEN LET d == [i \in 1..3 |-> w.v[i] \div theta]
             IN  Rodrigues(d, w.r, Cos2(theta), SinOverRoot2(w.r, theta))
        ELSE [nan |-> TRUE]

\* an exp with the signs of the alpha terms exchanged, which turns the
\* other way: what RotationDirection tells from exp
exp_transposed(w) ==
  LET theta == norm(w)
  IN  IF theta > 0
        THEN LET d == [i \in 1..3 |-> w.v[i] \div theta]
             IN  Rodrigues(d, w.r, Cos2(theta), -SinOverRoot2(w.r, theta))
        ELSE Rodrigues(w.v, 1, Cos2(theta), -2)

exp(w) ==
  LET theta == norm(w)
  IN  IF theta > 0
        THEN LET d == [i \in 1..3 |-> w.v[i] \div theta]
             IN  Rodrigues(d, w.r, Cos2(theta), SinOverRoot2(w.r, theta))
        \* small-angle branch: theta = 0 on the grid, alpha = 1, beta = 1/2,
        \* every product with a component of w is 0
        ELSE Rodrigues(w.v, 1, Cos2(theta), 2)

\* Eigen: AngleAxis::toRotationMatrix
AngleAxisToMatrix(aa) ==
  Rodrigues(aa.axis, AxisSq(aa.axis), Cos2(aa.angle),
            SinOverRoot2(AxisSq(aa.axis), aa.angle))

\* Eigen: Quaternion::toRotationMatrix
QuaternionToMatrix(q) ==
  LET tx == QScale(2, q.x)
      ty == QScale(2, q.y)
      tz == QScale(2, q.z)
      twx == QMul(tx, q.w)
      twy == QMul(ty, q.w)
      twz == QMul(tz, q.w)
      txx == QMul(tx, q.x)
      txy == QMul(ty, q.x)
      txz == QMul(tz, q.x)
      tyy == QMul(ty, q.y)
      tyz == QMul(tz, q.y)
      tzz == QMul(tz, q.z)
      one == QInt(1)
  IN  Matrix3(
        << << QToInt(QSub(one, QAdd(tyy, tzz))), QToInt(QSub(txy, twz)), QToInt(QAdd(txz, twy)) >>,
           << QToInt(QAdd(txy, twz)), QToInt(QSub(one, QAdd(txx, tzz))), QToInt(QSub(tyz, twx)) >>,
           << QToInt(QSub(txz, twy)), QToInt(QAdd(tyz, twx)), QToInt(QSub(one, QAdd(txx, tyy))) >> >>)

\* Eigen: Quaternion = Matrix3 (quaternionbase_assign_impl<Other,3,3>)
MatrixToQuaternion(mat) ==
  LET t == Trace(mat)
  IN  IF t > 0
        THEN LET st == QSqrt(t + 1)
                 f == QHalfOver(st)
             IN  Quaternion(QHalf(st),
                            QScale(mat.m[3][2] - mat.m[2][3], f),
                            QScale(mat.m[1][3] - mat.m[3][1], f),
                            QScale(mat.m[2][1] - mat.m[1][2], f))
        ELSE LET i0 == IF mat.m[2][2] > mat.m[1][1] THEN 2 ELSE 1
                 i == IF mat.m[3][3] > mat.m[i0][i0] THEN 3 ELSE i0
                 j == (i % 3) + 1
                 k == (j % 3) + 1
                 st == QSqrt(mat.m[i][i] - mat.m[j][j] - mat.m[k][k] + 1)
                 f == QHalfOver(st)
                 co == [n \in 1..3 |->
                          IF n = i THEN QHalf(st)
                          ELSE IF n = j THEN QScale(mat.m[j][i] + mat.m[i][j], f)
                          ELSE QScale(mat.m[k][i] + mat.m[i][k], f)]
             IN  Quaternion(QScale(mat.m[k][j] - mat.m[j][k], f), co[1], co[2], co[3])

\* Eigen: Quaternion = AngleAxis
AngleAxisToQuaternion(aa) ==
  LET sh == SinHalfOverRoot(AxisSq(aa.axis), aa.angle)
  IN  Quaternion(CosHalf(aa.angle),
                 QScale(aa.axis[1], sh), QScale(aa.axis[2], sh), QScale(aa.axis[3], sh))

\* Eigen: AngleAxis = Quaternion.  n = q.vec().norm(); the axis q.vec()/n is
\* the unit vector along q.vec(), whose integer direction is the sign
\* pattern of q.vec() (the non-zero coefficients of a grid quaternion's
\* vector part have one absolute value)
QuaternionToAngleAxis(q) ==
  LET vec == <<QSgn(q.x), QSgn(q.y), QSgn(q.z)>>
      flip == IF QSgn(q.w) < 0 THEN -1 ELSE 1
  IN  IF vec # <<0, 0, 0>>
        THEN AngleAxis(TwiceAtan2(QAbs(q.w)),
                       <<flip * vec[1], flip * vec[2], flip * vec[3]>>)
        ELSE AngleAxis(0, UnitX)

\* Eigen: AngleAxis = Matrix3 (AngleAxis::fromRotationMatrix goes through
\* the quaternion)
MatrixToAngleAxis(mat) == QuaternionToAngleAxis(MatrixToQuaternion(mat))

\* angle * axis, as a 3-vector
ScaleAxis(angle, axis) ==
  RotVec(<<angle * axis[1], angle * axis[2], angle * axis[3]>>, AxisSq(axis))

\* a log that returns the vector of the opposite rotation: what
\* ExpLogInverse tells from log
log_negated(R) ==
  LET aa == MatrixToAngleAxis(R)
  IN  ScaleAxis(-aa.angle, aa.axis)

log(R) ==
  LET aa == MatrixToAngleAxis(R)
  IN  ScaleAxis(aa.angle, aa.axis)

(***************************************************************************)
(* Canonical conversion router                                             *)
(***************************************************************************)
rep_convert_to_canonical_impl(RepFrom, data) ==
  CASE RepFrom = DefaultSO3CanonicalRep -> data
    [] RepFrom = RotationVectorRep -> exp(data)
    [] RepFrom = AxisAngleRep -> AngleAxisToMatrix(data)
    [] RepFrom = QuaternionRep -> QuaternionToMatrix(data)

rep_convert_from_canonical_impl(RepTo, canonicalData) ==
  CASE RepTo = DefaultSO3CanonicalRep -> canonicalData
    [] RepTo = RotationVectorRep -> log(canonicalData)
    [] RepTo = AxisAngleRep -> MatrixToAngleAxis(canonicalData)
    [] RepTo = QuaternionRep -> MatrixToQuaternion(canonicalData)

\* a conversion without the branch on norm > 0, which divides the zero
\* vector by its norm: what RotationVectorToAxisAngle tells from
\* convert_RotationVector_AxisAngle
convert_RotationVector_AxisAngle_unguarded(data) ==
  LET n == norm(data)
  IN  AngleAxis(n, [i \in 1..3 |-> IF n = 0 THEN 0 ELSE data.v[i] \div n])

\* rep_convert_impl<S, RotationVectorRep, AxisAngleRep>
convert_RotationVector_AxisAngle(data) ==
  LET n == norm(data)
  IN  IF n > 0
        THEN AngleAxis(n, [i \in 1..3 |-> data.v[i] \div n])
        ELSE AngleAxis(0, UnitX)

\* a conversion that drops the sign of the angle: what
\* ConversionPreservesOrientation tells from convert_AxisAngle_RotationVector
convert_AxisAngle_RotationVector_unsigned(data) ==
  ScaleAxis(Abs(data.angle), data.axis)

\* a conversion that takes a full turn about the axis for the angle 0: what
\* ZeroAngleToZeroVector tells from convert_AxisAngle_RotationVector
convert_AxisAngle_RotationVector_full_turn(data) ==
  ScaleAxis(IF data.angle = 0 THEN 12 ELSE data.angle, data.axis)

\* rep_convert_impl<S, AxisAngleRep, RotationVectorRep>
convert_AxisAngle_RotationVector(data) == ScaleAxis(data.angle, data.axis)

\* rep_convert_impl<S, AxisAngleRep, QuaternionRep>
convert_AxisAngle_Quaternion(data) == AngleAxisToQuaternion(data)

\* rep_convert_impl<S, QuaternionRep, AxisAngleRep>
convert_Quaternion_AxisAngle(data) == QuaternionToAngleAxis(data)

\* a router without the specialization on (AxisAngleRep, QuaternionRep): what
\* RoutingTable tells from rep_convert_impl
rep_convert_impl_without_shortcut(RepFrom, RepTo, data) ==
  CASE RepFrom = RepTo ->
         [data |-> data, via |-> "same"]
    [] RepFrom = RotationVectorRep /\ RepTo = AxisAngleRep ->
         [data |-> convert_RotationVector_AxisAngle(data), via |-> "direct"]
    [] RepFrom = AxisAngleRep /\ RepTo = RotationVectorRep ->
         [data |-> convert_AxisAngle_RotationVector(data), via |-> "direct"]
    [] RepFrom = QuaternionRep /\ RepTo = AxisAngleRep ->
         [data |-> convert_Quaternion_AxisAngle(data), via |-> "direct"]
    [] OTHER ->
         [data |-> rep_convert_from_canonical_impl(RepTo,
                     rep_convert_to_canonical_impl(RepFrom, data)),
          via |-> "canonical"]

\* a router with the specialization on (RotationVectorRep, QuaternionRep)
\* that lines 403-414 keep commented out, its body empty: what
\* RotationVectorQuaternionThroughCanonical tells from rep_convert_impl
rep_convert_impl_with_empty_shortcut(RepFrom, RepTo, data) ==
  CASE RepFrom = RepTo ->
         [data |-> data, via |-> "same"]
    [] RepFrom = RotationVectorRep /\ RepTo = AxisAngleRep ->
         [data |-> convert_RotationVector_AxisAngle(data), via |-> "direct"]
    [] RepFrom = RotationVectorRep /\ RepTo = QuaternionRep ->
         [data |-> Quaternion(QInt(0), QInt(0), QInt(0), QInt(0)), via |-> "direct"]
    [] RepFrom = AxisAngleRep /\ RepTo = RotationVectorRep ->
         [data |-> convert_AxisAngle_RotationVector(data), via |-> "direct"]
    [] RepFrom = AxisAngleRep /\ RepTo = QuaternionRep ->
         [data |-> convert_AxisAngle_Quaternion(data), via |-> "direct"]
    [] RepFrom = QuaternionRep /\ RepTo = AxisAngleRep ->
         [data |-> convert_Quaternion_AxisAngle(data), via |-> "direct"]
    [] OTHER ->
         [data |-> rep_convert_from_canonical_impl(RepTo,
                     rep_convert_to_canonical_impl(RepFrom, data)),
          via |-> "canonical"]

\* The specialization of rep_convert_impl that the pair (RepFrom, RepTo)
\* selects, and the datum it returns.  via is "same" for
\* rep_convert_impl<S, Rep, Rep>, "direct" for the four specializations on a
\* pair of representations, "canonical" for the primary template.
rep_convert_impl(RepFrom, RepTo, data) ==
  CASE RepFrom = RepTo ->
         [data |-> data, via |-> "same"]
    [] RepFrom = RotationVectorRep /\ RepTo = AxisAngleRep ->
         [data |-> convert_RotationVector_AxisAngle(data), via |-> "direct"]
    [] RepFrom = AxisAngleRep /\ RepTo = RotationVectorRep ->
         [data |-> convert_AxisAngle_RotationVector(data), via |-> "direct"]
    [] RepFrom = AxisAngleRep /\ RepTo = QuaternionRep ->
         [data |-> convert_AxisAngle_Quaternion(data), via |-> "direct"]
    [] RepFrom = QuaternionRep /\ RepTo = AxisAngleRep ->
         [data |-> convert_Quaternion_AxisAngle(data), via |-> "direct"]
    [] OTHER ->
         [data |-> rep_convert_from_canonical_impl(RepTo,
                     rep_convert_to_canonical_impl(RepFrom, data)),
          via |-> "canonical"]

(***************************************************************************)
(* Approximate equality                                                    *)
(***************************************************************************)
\* Eigen: MatrixBase::isApprox, AngleAxis::isApprox (axis and angle, each on
\* its own), QuaternionBase::isApprox (the four coefficients), for a
\* tolerance below 1/2: true iff the exact distance of the two raw data is 0
EigenIsApprox(Rep, dataA, dataB) ==
  CASE Rep = RotationMatrixRep ->
         \A i \in 1..3 : \A j \in 1..3 : dataA.m[i][j] - dataB.m[i][j] = 0
    [] Rep = AxisAngleRep ->
         /\ \A i \in 1..3 : dataA.axis[i] - dataB.axis[i] = 0
         /\ dataA.angle - dataB.angle = 0
    [] Rep = QuaternionRep ->
         /\ QSub(dataA.w, dataB.w) = <<0, 0>>
         /\ QSub(dataA.x, dataB.x) = <<0, 0>>
         /\ QSub(dataA.y, dataB.y) = <<0, 0>>
         /\ QSub(dataA.z, dataB.z) = <<0, 0>>
    [] Rep = RotationVectorRep ->
         /\ dataA.r = dataB.r
         /\ \A i \in 1..3 : dataA.v[i] - dataB.v[i] = 0

\* a comparison that converts both operands whatever their representations:
\* what IsApproxDispatch tells from rep_is_approx_impl
rep_is_approx_impl_always_canonical(SO3RepA, SO3RepB, dataA, dataB) ==
  EigenIsApprox(DefaultSO3CanonicalRep,
                rep_convert_to_canonical_impl(SO3RepA, dataA),
                rep_convert_to_canonical_impl(SO3RepB, dataB))

\* rep_is_approx_impl: the raw data of one representation are compared as
\* they are, those of two representations as canonical matrices
rep_is_approx_impl(SO3RepA, SO3RepB, dataA, dataB) ==
  IF SO3RepA = SO3RepB
    THEN EigenIsApprox(SO3RepA, dataA, dataB)
    ELSE EigenIsApprox(DefaultSO3CanonicalRep,
                       rep_convert_to_canonical_impl(SO3RepA, dataA),
                       rep_convert_to_canonical_impl(SO3RepB, dataB))

group_is_approx_impl(Ra, Rb) == rep_is_approx_impl(Ra.rep, Rb.rep, Ra.data, Rb.data)

(***************************************************************************)
(* Multiplication                                                          *)
(***************************************************************************)
\* Eigen: QuaternionBase::operator*
QuaternionProduct(a, b) ==
  Quaternion(
    QSub(QSub(QSub(QMul(a.w, b.w), QMul(a.x, b.x)), QMul(a.y, b.y)), QMul(a.z, b.z)),
    QSub(QAdd(QAdd(QMul(a.w, b.x), QMul(a.x, b.w)), QMul(a.y, b.z)), QMul(a.z, b.y)),
    QSub(QAdd(QAdd(QMul(a.w, b.y), QMul(a.y, b.w)), QMul(a.z, b.x)), QMul(a.x, b.z)),
    QSub(QAdd(QAdd(QMul(a.w, b.z), QMul(a.z, b.w)), QMul(a.x, b.y)), QMul(a.y, b.x)))

\* the raw data types the Eigen specialization accepts on either side:
\* Eigen::Matrix<S, 3, 3>, Eigen::AngleAxis<S>, Eigen::Quaternion<S>
IsEigenRotation(Rep) == Rep \in {RotationMatrixRep, AxisAngleRep, QuaternionRep}

\* Eigen: RotationBase::toRotationMatrix (a matrix is its own)
toRotationMatrix(Rep, data) ==
  CASE Rep = RotationMatrixRep -> data
    [] Rep = AxisAngleRep -> AngleAxisToMatrix(data)
    [] Rep = QuaternionRep -> QuaternionToMatrix(data)

\* Eigen: dataA * dataB for two raw data among Matrix3, AngleAxis and
\* Quaternion.  A product with a matrix on either side is a matrix
\* (RotationBase::operator*), every other product is a quaternion
\* (AngleAxis::operator*, QuaternionBase::operator*).
EigenProduct(RepA, dataA, RepB, dataB) ==
  IF RepA = RotationMatrixRep \/ RepB = RotationMatrixRep
    THEN [rep |-> RotationMatrixRep,
          data |-> MatMul(toRotationMatrix(RepA, dataA), toRotationMatrix(RepB, dataB))]
    ELSE [rep |-> QuaternionRep,
          data |-> QuaternionProduct(
                     IF RepA = AxisAngleRep THEN AngleAxisToQuaternion(dataA) ELSE dataA,
                     IF RepB = AxisAngleRep THEN AngleAxisToQuaternion(dataB) ELSE dataB)]

\* SO3A(raw): the raw datum of an Eigen product stored as RepA's raw data.
\* SO3<S, AxisAngleRep> has a constructor from a quaternion and none from a
\* matrix; the product of an AxisAngle and a matrix is stored as assigning
\* the matrix to the Eigen::AngleAxis does.
ConstructFrom(RepA, raw) ==
  CASE raw.rep = RepA -> raw.data
    [] RepA = AxisAngleRep /\ raw.rep = QuaternionRep -> QuaternionToAngleAxis(raw.data)
    [] RepA = AxisAngleRep /\ raw.rep = RotationMatrixRep -> MatrixToAngleAxis(raw.data)
    [] RepA = QuaternionRep /\ raw.rep = RotationMatrixRep -> MatrixToQuaternion(raw.data)

\* the product in the other order: what MultiplicationIsCanonicalProduct
\* tells from rep_canonical_multiplication_impl
rep_canonical_multiplication_impl_swapped(data, otherData) == MatMul(otherData, data)

\* rep_canonical_multiplication_impl: data * otherData
rep_canonical_multiplication_impl(data, otherData) == MatMul(data, otherData)

\* a dispatch that multiplies the raw data only of two operands of one
\* representation: what MultiplicationDispatch tells from
\* group_multiplication_impl
group_multiplication_impl_same_rep_only(Ra, Rb) ==
  IF IsEigenRotation(Ra.rep) /\ Ra.rep = Rb.rep
    THEN [rep |-> Ra.rep,
          data |-> ConstructFrom(Ra.rep, EigenProduct(Ra.rep, Ra.data, Rb.rep, Rb.data)),
          via |-> "eigen"]
    ELSE [rep |-> Ra.rep,
          data |-> rep_convert_from_canonical_impl(Ra.rep,
                     MatMul(rep_convert_to_canonical_impl(Ra.rep, Ra.data),
                            rep_convert_to_canonical_impl(Rb.rep, Rb.data))),
          via |-> "canonical"]

\* Ra * Rb: the value returned, and the specialization of
\* group_multiplication_impl that computed it ("eigen" for the one on two
\* Eigen rotation types, "canonical" for the generic one)
group_multiplication_impl(Ra, Rb) ==
  IF IsEigenRotation(Ra.rep) /\ IsEigenRotation(Rb.rep)
    THEN [rep |-> Ra.rep,
          data |-> ConstructFrom(Ra.rep, EigenProduct(Ra.rep, Ra.data, Rb.rep, Rb.data)),
          via |-> "eigen"]
    ELSE [rep |-> Ra.rep,
          data |-> rep_convert_from_canonical_impl(Ra.rep,
                     rep_canonical_multiplication_impl(
                       rep_convert_to_canonical_impl(Ra.rep, Ra.data),
                       rep_convert_to_canonical_impl(Rb.rep, Rb.data))),
          via |-> "canonical"]

\* The pairs of raw data types for which Eigen declares operator*=:
\* Matrix3 *= Matrix3 (MatrixBase::operator*=) and Quaternion *= Quaternion
\* (QuaternionBase::operator*=).  Eigen::AngleAxis declares no operator*=,
\* and neither a matrix nor a quaternion declares one on another rotation
\* type.
HasEigenInplaceProduct(RepA, RepB) ==
  RepA = RepB /\ RepA \in {RotationMatrixRep, QuaternionRep}

\* the outcome of a statement that no Eigen operator makes well-formed: the
\* program is not built and no value is produced
IllFormed == [illformed |-> TRUE]

\* Ra *= Rb: Ra's raw data, Rb's raw data and the specialization of
\* group_inplace_multiplication_impl selected
group_inplace_multiplication_impl(Ra, Rb) ==
  IF IsEigenRotation(Ra.rep) /\ IsEigenRotation(Rb.rep)
    THEN [rep |-> Ra.rep,
          data |-> IF HasEigenInplaceProduct(Ra.rep, Rb.rep)
                     THEN EigenProduct(Ra.rep, Ra.data, Rb.rep, Rb.data).data
                     ELSE IllFormed,
          other |-> Rb.data,
          via |-> "eigen"]
    ELSE [rep |-> Ra.rep,
          data |-> rep_convert_from_canonical_impl(Ra.rep,
                     rep_canonical_multiplication_impl(
                       rep_convert_to_canonical_impl(Ra.rep, Ra.data),
                       rep_convert_to_canonical_impl(Rb.rep, Rb.data))),
          other |-> Rb.data,
          via |-> "canonical"]

\* an orientation value
SO3(Rep, data) == [rep |-> Rep, data |-> data]

Value(r) == SO3(r.rep, r.data)

(***************************************************************************)
(* Inversion and identity                                                  *)
(***************************************************************************)
\* an inversion that negates the axis as well as the angle: what
\* InversionClosedForms tells from AxisAngle_invert
AxisAngle_invert_axis_too(data) ==
  AngleAxis(data.angle * (-1), [i \in 1..3 |-> data.axis[i] * (-1)])

\* SO3<S, AxisAngleRep>::invert
AxisAngle_invert(data) == AngleAxis(data.angle * (-1), data.axis)

\* SO3RotationVector::invert
RotationVector_invert(data) == RotVec([i \in 1..3 |-> data.v[i] * (-1)], data.r)

\* R.invert(), for the two classes of the source
invert(R) ==
  CASE R.rep = AxisAngleRep -> [rep |-> R.rep, data |-> AxisAngle_invert(R.data)]
    [] R.rep = RotationVectorRep -> [rep |-> R.rep, data |-> RotationVector_invert(R.data)]

\* an inverse that returns the vector as it is: what
\* InversionIsTranspose tells from RotationVector_getInverse
RotationVector_getInverse_unchanged(data) == RotVec(data.v, data.r)

\* SO3<S, AxisAngleRep>::getInverse
AxisAngle_getInverse(data) == AngleAxis(-data.angle, data.axis)

\* SO3RotationVector::getInverse
RotationVector_getInverse(data) == RotVec([i \in 1..3 |-> -data.v[i]], data.r)

\* matrix: transpose
RotationMatrix_getInverse(data) == Transpose(data)

\* quaternion: conjugate
Quaternion_getInverse(data) == Quaternion(data.w, QNeg(data.x), QNeg(data.y), QNeg(data.z))

getInverse(R) ==
  CASE R.rep = AxisAngleRep -> SO3(R.rep, AxisAngle_getInverse(R.data))
    [] R.rep = RotationVectorRep -> SO3(R.rep, RotationVector_getInverse(R.data))
    [] R.rep = RotationMatrixRep -> SO3(R.rep, RotationMatrix_getInverse(R.data))
    [] R.rep = QuaternionRep -> SO3(R.rep, Quaternion_getInverse(R.data))

\* a test that also asks for the default axis: what IsIdentityExact tells
\* from AxisAngle_isIdentity
AxisAngle_isIdentity_default_axis(data) == data.angle = 0 /\ data.axis = UnitX

\* SO3<S, AxisAngleRep>::operator==: true when both angles are 0, otherwise
\* mRepData.isApprox(other.mRepData, 0)
AxisAngle_equals(data, other) ==
  IF data.angle = 0 /\ other.angle = 0
    THEN TRUE
    ELSE EigenIsApprox(AxisAngleRep, data, other)

\* SO3<S, AxisAngleRep>::isIdentity
AxisAngle_isIdentity(data) == data.angle = 0

\* SO3RotationVector::isIdentity: mRepData == RepData::Zero()
RotationVector_isIdentity(data) == data = RotVec(<<0, 0, 0>>, 1)

\* R.isIdentity(), for the two classes of the source
isIdentity(R) ==
  CASE R.rep = AxisAngleRep -> AxisAngle_isIdentity(R.data)
    [] R.rep = RotationVectorRep -> RotationVector_isIdentity(R.data)

\* SO3<S, AxisAngleRep>::setIdentity: the angle is set, the axis is kept
AxisAngle_setIdentity(data) == AngleAxis(0, data.axis)

\* SO3RotationVector::setIdentity
RotationVector_setIdentity(data) == RotVec(<<0, 0, 0>>, 1)

\* matrix = identity matrix
RotationMatrix_setIdentity(data) == Identity3

\* quaternion = (1, 0, 0, 0)
Quaternion_setIdentity(data) == Quaternion(QInt(1), QInt(0), QInt(0), QInt(0))

setIdentity(R) ==
  CASE R.rep = AxisAngleRep -> SO3(R.rep, AxisAngle_setIdentity(R.data))
    [] R.rep = RotationVectorRep -> SO3(R.rep, RotationVector_setIdentity(R.data))
    [] R.rep = RotationMatrixRep -> SO3(R.rep, RotationMatrix_setIdentity(R.data))
    [] R.rep = QuaternionRep -> SO3(R.rep, Quaternion_setIdentity(R.data))

(***************************************************************************)
(* Valid orientation data                                                  *)
(***************************************************************************)
\* the directions of the face, edge and vertex axes of the cube
Axes == {s \in {-1, 0, 1} \X {-1, 0, 1} \X {-1, 0, 1} : s # <<0, 0, 0>>}

\* the smallest angle about an axis that maps the cube to itself: a quarter
\* turn (face), a half turn (edge), a third of a turn (vertex)
Step(s) == CASE AxisSq(s) = 1 -> 3 [] AxisSq(s) = 2 -> 6 [] AxisSq(s) = 3 -> 4

AxisAngleData(axes, steps) ==
  {AngleAxis(k * Step(s), s) : s \in axes, k \in -steps..steps}

ValuesOver(aas) ==
  {SO3(AxisAngleRep, aa) : aa \in aas}
    \cup {SO3(RotationVectorRep, ScaleAxis(aa.angle, aa.axis)) : aa \in aas}
    \cup {SO3(QuaternionRep, AngleAxisToQuaternion(aa)) : aa \in aas}
    \cup {SO3(RotationMatrixRep, AngleAxisToMatrix(aa)) : aa \in aas}

\* every unit-axis AxisAngle within MaxSteps steps, and every rotation
\* vector, unit quaternion and rotation matrix of the same rotations
ValidValues == ValuesOver(AxisAngleData(Axes, MaxSteps))

\* the operands of the group operations: rotations about a face axis, a
\* second face axis and a vertex axis, positive and negative, in the four
\* representations
GroupAxes == {<<1, 0, 0>>, <<0, 0, 1>>, <<1, 1, 1>>}

GroupValues == ValuesOver(AxisAngleData(GroupAxes, GroupSteps))

\* the third operand of a triple product
ThirdValues ==
  ValuesOver({AngleAxis(Step(<<0, 0, 1>>), <<0, 0, 1>>)})
    \cup {SO3(AxisAngleRep, AngleAxis(Step(<<1, 0, 0>>), <<1, 0, 0>>))}

Nil == [rep |-> "none"]

(***************************************************************************)
(* Conversions: A is converted to a representation and back                *)
(***************************************************************************)
groupVars == <<B, C, AB, BC, AB_C, A_BC, Inv, Prod, Idv, AI, IA, verdict, pre>>

objVars == <<heap, objs, last, ops>>

\* no object is constructed
NoObjects ==
  /\ heap = [c \in {"a", "b"} |-> Nil]
  /\ objs = [o \in {"a", "b"} |-> Nil]
  /\ last = [op |-> "none"]
  /\ ops = 0

Blank ==
  /\ pc = "start"
  /\ mid = Nil /\ back = Nil /\ via = "none"
  /\ B = Nil /\ C = Nil /\ AB = Nil /\ BC = Nil /\ AB_C = Nil /\ A_BC = Nil
  /\ Inv = Nil /\ Prod = Nil /\ Idv = Nil /\ AI = Nil /\ IA = Nil
  /\ verdict = "none"
  /\ pre = Nil

Init ==
  /\ A \in ValidValues
  /\ Blank
  /\ NoObjects
  /\ skel = Nil /\ elems = Nil

\* mid = SO3<S, RepTo>(A)
Convert ==
  /\ pc = "start"
  /\ \E RepTo \in SO3Representation :
       LET c == rep_convert_impl(A.rep, RepTo, A.data)
       IN  /\ mid' = SO3(RepTo, c.data)
           /\ via' = c.via
  /\ pc' = "converted"
  /\ UNCHANGED <<objVars, skel, elems>>
  /\ UNCHANGED <<A, back>>
  /\ UNCHANGED groupVars

\* back = SO3<S, RepA>(mid)
ConvertBack ==
  /\ pc = "converted"
  /\ LET c == rep_convert_impl(mid.rep, A.rep, mid.data)
     IN  /\ back' = SO3(A.rep, c.data)
         /\ via' = c.via
  /\ pc' = "back"
  /\ UNCHANGED <<objVars, skel, elems>>
  /\ UNCHANGED <<A, mid>>
  /\ UNCHANGED groupVars

Next == Convert \/ ConvertBack

Spec == Init /\ [][Next]_vars

(***************************************************************************)
(* Group operations on A, B and C                                          *)
(***************************************************************************)
InitGroup ==
  /\ A \in GroupValues
  /\ Blank
  /\ NoObjects
  /\ skel = Nil /\ elems = Nil

\* AB = A * B
MulAB ==
  /\ pc = "start"
  /\ \E b \in GroupValues :
       LET p == group_multiplication_impl(A, b)
       IN  /\ B' = b
           /\ AB' = Value(p)
           /\ via' = p.via
  /\ pc' = "AB"
  /\ UNCHANGED <<objVars, skel, elems>>
  /\ UNCHANGED <<A, C, mid, back, BC, AB_C, A_BC, Inv, Prod, Idv, AI, IA, verdict, pre>>

\* verdict = A.isApprox(B)
IsApproxAB ==
  /\ pc = "AB"
  /\ verdict' = group_is_approx_impl(A, B)
  /\ pc' = "approx"
  /\ UNCHANGED <<objVars, skel, elems>>
  /\ UNCHANGED <<A, B, C, mid, back, via, AB, BC, AB_C, A_BC, Inv, Prod, Idv, AI, IA, pre>>

\* A *= B
MulInPlace ==
  /\ pc = "AB"
  /\ LET p == group_inplace_multiplication_impl(A, B)
     IN  /\ A' = SO3(p.rep, p.data)
         /\ B' = SO3(B.rep, p.other)
         /\ via' = p.via
  /\ pre' = <<A, B>>
  /\ pc' = "inplace"
  /\ UNCHANGED <<objVars, skel, elems>>
  /\ UNCHANGED <<C, mid, back, AB, BC, AB_C, A_BC, Inv, Prod, Idv, AI, IA, verdict>>

\* BC = B * C
MulBC ==
  /\ pc = "AB"
  /\ \E c \in ThirdValues :
       /\ C' = c
       /\ BC' = Value(group_multiplication_impl(B, c))
  /\ pc' = "BC"
  /\ UNCHANGED <<objVars, skel, elems>>
  /\ UNCHANGED <<A, B, mid, back, via, AB, AB_C, A_BC, Inv, Prod, Idv, AI, IA, verdict, pre>>

\* AB_C = (A * B) * C
MulAB_C ==
  /\ pc = "BC"
  /\ AB_C' = Value(group_multiplication_impl(AB, C))
  /\ pc' = "AB_C"
  /\ UNCHANGED <<objVars, skel, elems>>
  /\ UNCHANGED <<A, B, C, mid, back, via, AB, BC, A_BC, Inv, Prod, Idv, AI, IA, verdict, pre>>

\* A_BC = A * (B * C)
MulA_BC ==
  /\ pc = "AB_C"
  /\ A_BC' = Value(group_multiplication_impl(A, BC))
  /\ pc' = "A_BC"
  /\ UNCHANGED <<objVars, skel, elems>>
  /\ UNCHANGED <<A, B, C, mid, back, via, AB, BC, AB_C, Inv, Prod, Idv, AI, IA, verdict, pre>>

\* Inv = A.getInverse()
GetInverse ==
  /\ pc = "start"
  /\ Inv' = getInverse(A)
  /\ pre' = <<A>>
  /\ pc' = "Inv"
  /\ UNCHANGED <<objVars, skel, elems>>
  /\ UNCHANGED <<A, B, C, mid, back, via, AB, BC, AB_C, A_BC, Prod, Idv, AI, IA, verdict>>

\* A.invert(), after Inv = A.getInverse() was taken
Invert ==
  /\ pc = "Inv"
  /\ A.rep \in {AxisAngleRep, RotationVectorRep}
  /\ A' = invert(A)
  /\ pc' = "inverted"
  /\ UNCHANGED <<objVars, skel, elems>>
  /\ UNCHANGED <<B, C, mid, back, via, AB, BC, AB_C, A_BC, Inv, Prod, Idv, AI, IA, verdict, pre>>

\* A.invert() once more
InvertAgain ==
  /\ pc = "inverted"
  /\ A' = invert(A)
  /\ pc' = "inverted2"
  /\ UNCHANGED <<objVars, skel, elems>>
  /\ UNCHANGED <<B, C, mid, back, via, AB, BC, AB_C, A_BC, Inv, Prod, Idv, AI, IA, verdict, pre>>

\* Prod = A * A.getInverse()
MulInverse ==
  /\ pc = "Inv"
  /\ Prod' = Value(group_multiplication_impl(A, Inv))
  /\ pc' = "Prod"
  /\ UNCHANGED <<objVars, skel, elems>>
  /\ UNCHANGED <<A, B, C, mid, back, via, AB, BC, AB_C, A_BC, Inv, Idv, AI, IA, verdict, pre>>

\* B.setIdentity(), for a value B of any representation and content
SetIdentity ==
  /\ pc = "Prod"
  /\ \E b \in GroupValues :
       /\ B' = b
       /\ Idv' = setIdentity(b)
  /\ pc' = "Idv"
  /\ UNCHANGED <<objVars, skel, elems>>
  /\ UNCHANGED <<A, C, mid, back, via, AB, BC, AB_C, A_BC, Inv, Prod, AI, IA, verdict, pre>>

\* verdict = A.isIdentity()
IsIdentityA ==
  /\ pc = "start"
  /\ A.rep \in {AxisAngleRep, RotationVectorRep}
  /\ verdict' = isIdentity(A)
  /\ pc' = "isIdentity"
  /\ UNCHANGED <<objVars, skel, elems>>
  /\ UNCHANGED <<A, B, C, mid, back, via, AB, BC, AB_C, A_BC, Inv, Prod, Idv, AI, IA, pre>>

\* verdict = B.isIdentity(), after B.setIdentity()
IsIdentityIdv ==
  /\ pc = "Idv"
  /\ Idv.rep \in {AxisAngleRep, RotationVectorRep}
  /\ verdict' = isIdentity(Idv)
  /\ pc' = "isIdentityIdv"
  /\ UNCHANGED <<objVars, skel, elems>>
  /\ UNCHANGED <<A, B, C, mid, back, via, AB, BC, AB_C, A_BC, Inv, Prod, Idv, AI, IA, pre>>

\* AI = A * Idv
MulIdentityRight ==
  /\ pc = "Idv"
  /\ LET p == group_multiplication_impl(A, Idv)
     IN  /\ AI' = Value(p)
         /\ via' = p.via
  /\ pc' = "AI"
  /\ UNCHANGED <<objVars, skel, elems>>
  /\ UNCHANGED <<A, B, C, mid, back, AB, BC, AB_C, A_BC, Inv, Prod, Idv, IA, verdict, pre>>

\* IA = Idv * A
MulIdentityLeft ==
  /\ pc = "AI"
  /\ LET p == group_multiplication_impl(Idv, A)
     IN  /\ IA' = Value(p)
         /\ via' = p.via
  /\ pc' = "IA"
  /\ UNCHANGED <<objVars, skel, elems>>
  /\ UNCHANGED <<A, B, C, mid, back, AB, BC, AB_C, A_BC, Inv, Prod, Idv, AI, verdict, pre>>

NextGroup ==
  \/ MulAB \/ IsApproxAB \/ MulInPlace \/ MulBC \/ MulAB_C \/ MulA_BC
  \/ GetInverse \/ Invert \/ InvertAgain \/ MulInverse \/ SetIdentity \/ MulIdentityRight \/ MulIdentityLeft
  \/ IsIdentityA \/ IsIdentityIdv

SpecGroup == InitGroup /\ [][NextGroup]_vars

(***************************************************************************)
(* Objects: a is constructed, b is made from a, and both are mutated       *)
(***************************************************************************)
\* the two classes of the source
ObjectReps == {AxisAngleRep, RotationVectorRep}

\* a vector that is not of unit norm, where an axis is expected
NotAnAxis == <<0, 0, 0>>

\* the axes, angles and vectors the callers pass: unit axes only
ObjAxes == {UnitX, <<0, 0, 1>>}

ObjAngles == {0, Step(UnitX)}

ObjVectors == {ScaleAxis(angle, <<0, 0, 1>>) : angle \in ObjAngles}

\* The raw data a default constructor leaves.  mRepData{RepDataType()} runs
\* Eigen's default constructor, which initializes neither the angle and the
\* axis of an AngleAxis nor the coefficients of a vector: the members hold
\* whatever the storage held.
Indeterminate(Rep) ==
  CASE Rep = AxisAngleRep ->
         {AngleAxis(angle, axis) : angle \in ObjAngles, axis \in {NotAnAxis, <<0, 0, 1>>}}
    [] Rep = RotationVectorRep -> ObjVectors

\* what setRandom() may leave: a normalized random axis and an angle within
\* (-1, 1), respectively coefficients within [-1, 1]
RandomData(Rep) ==
  CASE Rep = AxisAngleRep -> {AngleAxis(1, <<0, 0, 1>>), AngleAxis(-1, <<1, 1, 1>>)}
    [] Rep = RotationVectorRep -> {RotVec(<<1, 0, 0>>, 1), RotVec(<<0, 0, -1>>, 1)}

\* the member mRepData of object o
own(o) == o

\* an object that keeps a reference to the raw data it was made from: what
\* NoReferenceSemantics tells from StorageOf
StorageOf_shared(o, src) == src

\* the cell in which object o, made from the raw data in cell src, keeps its
\* raw data: mRepData is a member held by value, initialized by copy
StorageOf(o, src) == own(o)

RepDataOf(o) == heap[objs[o].ref]

ValueOf(o) == SO3(objs[o].rep, RepDataOf(o))

Other(o) == IF o = "a" THEN "b" ELSE "a"

\* the datum is one the exact products are defined on
OnGrid(R) ==
  LET aa == IF R.rep = AxisAngleRep THEN R.data
            ELSE convert_RotationVector_AxisAngle(R.data)
  IN  /\ aa.axis \in Axes
      /\ aa.angle % Step(aa.axis) = 0
      /\ R.rep = RotationVectorRep => ScaleAxis(aa.angle, aa.axis) = R.data

InitObjects ==
  /\ A = Nil
  /\ Blank
  /\ NoObjects
  /\ skel = Nil /\ elems = Nil

\* object o, its raw data written to its cell by operation op
Written(op, o, data) ==
  /\ heap' = [heap EXCEPT ![objs[o].ref] = data]
  /\ last' = [op |-> op, target |-> o, before |-> heap]
  /\ ops' = ops + 1
  /\ UNCHANGED objs

Constructed(op, o, Rep, ref, data) ==
  /\ objs' = [objs EXCEPT ![o] = [rep |-> Rep, ref |-> ref]]
  /\ heap' = [heap EXCEPT ![ref] = data]
  /\ last' = [op |-> op, target |-> o, before |-> heap]
  /\ UNCHANGED ops

Untouched ==
  UNCHANGED <<A, pc, mid, back, via>> /\ UNCHANGED groupVars /\ UNCHANGED <<skel, elems>>

\* SO3<S, Rep> a;
DefaultConstruct ==
  /\ objs["a"] = Nil
  /\ \E Rep \in ObjectReps : \E data \in Indeterminate(Rep) :
       Constructed("default", "a", Rep, own("a"), data)
  /\ Untouched

\* SO3<S, AxisAngleRep> a(axis, angle);  SO3RotationVector<S> a(vector);
ConstructFromData ==
  /\ objs["a"] = Nil
  /\ \/ \E axis \in ObjAxes : \E angle \in ObjAngles :
          Constructed("data", "a", AxisAngleRep, own("a"), AngleAxis(angle, axis))
     \/ \E vector \in ObjVectors :
          Constructed("data", "a", RotationVectorRep, own("a"), vector)
  /\ Untouched

\* SO3<S, Rep> b(a);  with a's representation
CopyConstruct ==
  /\ objs["a"] # Nil /\ objs["b"] = Nil
  /\ Constructed("copy", "b", objs["a"].rep, StorageOf("b", objs["a"].ref), RepDataOf("a"))
  /\ Untouched

\* SO3<S, Rep> b(a);  with the other representation
ConvertConstruct ==
  /\ objs["a"] # Nil /\ objs["b"] = Nil
  /\ \E Rep \in ObjectReps \ {objs["a"].rep} :
       Constructed("convert", "b", Rep, own("b"),
                   rep_convert_impl(objs["a"].rep, Rep, RepDataOf("a")).data)
  /\ Untouched

BothExist == objs["a"] # Nil /\ objs["b"] # Nil /\ ops < MaxOps

\* o = other;  (operator= for one representation, group_assign_impl for two)
Assign ==
  /\ BothExist
  /\ \E o \in {"a", "b"} :
       Written("assign", o,
               rep_convert_impl(objs[Other(o)].rep, objs[o].rep, RepDataOf(Other(o))).data)
  /\ Untouched

SetAxisAngle ==
  /\ BothExist
  /\ \E o \in {"a", "b"} : \E axis \in ObjAxes : \E angle \in ObjAngles :
       /\ objs[o].rep = AxisAngleRep
       /\ Written("setAxisAngle", o, AngleAxis(angle, axis))
  /\ Untouched

SetAxis ==
  /\ BothExist
  /\ \E o \in {"a", "b"} : \E axis \in ObjAxes :
       /\ objs[o].rep = AxisAngleRep
       /\ Written("setAxis", o, AngleAxis(RepDataOf(o).angle, axis))
  /\ Untouched

SetAngle ==
  /\ BothExist
  /\ \E o \in {"a", "b"} : \E angle \in ObjAngles :
       /\ objs[o].rep = AxisAngleRep
       /\ Written("setAngle", o, AngleAxis(angle, RepDataOf(o).axis))
  /\ Untouched

SetRotationVector ==
  /\ BothExist
  /\ \E o \in {"a", "b"} : \E vector \in ObjVectors :
       /\ objs[o].rep = RotationVectorRep
       /\ Written("setRotationVector", o, vector)
  /\ Untouched

SetRandom ==
  /\ BothExist
  /\ \E o \in {"a", "b"} : \E data \in RandomData(objs[o].rep) :
       Written("setRandom", o, data)
  /\ Untouched

ObjSetIdentity ==
  /\ BothExist
  /\ \E o \in {"a", "b"} : Written("setIdentity", o, setIdentity(ValueOf(o)).data)
  /\ Untouched

ObjInvert ==
  /\ BothExist
  /\ \E o \in {"a", "b"} : Written("invert", o, invert(ValueOf(o)).data)
  /\ Untouched

\* o *= other, where the statement is well-formed and the operands are on
\* the grid
ObjMulInPlace ==
  /\ BothExist
  /\ \E o \in {"a", "b"} :
       /\ RotationVectorRep \in {objs[o].rep, objs[Other(o)].rep}
       /\ OnGrid(ValueOf(o)) /\ OnGrid(ValueOf(Other(o)))
       /\ Written("mulInPlace", o,
                  group_inplace_multiplication_impl(ValueOf(o), ValueOf(Other(o))).data)
  /\ Untouched

NextObjects ==
  \/ DefaultConstruct \/ ConstructFromData \/ CopyConstruct \/ ConvertConstruct
  \/ Assign \/ SetAxisAngle \/ SetAxis \/ SetAngle \/ SetRotationVector
  \/ SetRandom \/ ObjSetIdentity \/ ObjInvert \/ ObjMulInPlace

SpecObjects == InitObjects /\ [][NextObjects]_vars

(***************************************************************************)
(* Raw arguments: object a is constructed and set from what a caller       *)
(* passes, whether or not it meets the precondition of the call            *)
(***************************************************************************)
\* the Eigen matrices a caller can pass: 3x1 vectors and 3x3 rotation
\* matrices
RawMatrices ==
  ObjVectors \cup {Identity3, AngleAxisToMatrix(AngleAxis(Step(UnitX), UnitX))}

\* matrix.cols()
cols(matrix) == IF "m" \in DOMAIN matrix THEN 3 ELSE 1

\* the call op(arg) on object a returned and left data in a.mRepData
Returned(op, arg, Rep, data) ==
  /\ objs' = [objs EXCEPT !["a"] = [rep |-> Rep, ref |-> own("a")]]
  /\ heap' = [heap EXCEPT ![own("a")] = data]
  /\ last' = [op |-> op, target |-> "a", before |-> heap, arg |-> arg]

\* an assert of the call op(arg) failed (debug build): the program stops
\* where it is
AssertionFailed(op, arg) ==
  /\ last' = [op |-> "assertion failed", target |-> "a", before |-> heap, arg |-> arg]
  /\ UNCHANGED <<heap, objs>>

\* SO3<S, AxisAngleRep> a(axis, angle);  : mRepData(angle, axis), no assert
ConstructAxisAngle ==
  /\ objs["a"] = Nil /\ last.op # "assertion failed"
  /\ \E axis \in ObjAxes \cup {NotAnAxis} : \E angle \in ObjAngles :
       Returned("SO3(axis, angle)", AngleAxis(angle, axis), AxisAngleRep,
                AngleAxis(angle, axis))
  /\ UNCHANGED ops
  /\ Untouched

\* SO3RotationVector<S> a(matrix);  : mRepData(matrix), then
\* assert(matrix.rows() == 3); assert(matrix.cols() == 1);
ConstructRotationVector ==
  /\ objs["a"] = Nil /\ last.op # "assertion failed"
  /\ \E matrix \in RawMatrices :
       IF cols(matrix) = 1
         THEN Returned("SO3RotationVector(matrix)", matrix, RotationVectorRep, matrix)
         ELSE AssertionFailed("SO3RotationVector(matrix)", matrix)
  /\ UNCHANGED ops
  /\ Untouched

\* a.setAxis(axis);  : mRepData.axis() = axis, no assert
CallSetAxis ==
  /\ objs["a"] # Nil /\ objs["a"].rep = AxisAngleRep /\ last.op # "assertion failed"
  /\ \E axis \in ObjAxes \cup {NotAnAxis} :
       Returned("setAxis", axis, AxisAngleRep, AngleAxis(RepDataOf("a").angle, axis))
  /\ ops < MaxOps /\ ops' = ops + 1
  /\ Untouched

\* a.setAxisAngle(axis, angle);  : axis and angle are stored, no assert
CallSetAxisAngle ==
  /\ objs["a"] # Nil /\ objs["a"].rep = AxisAngleRep /\ last.op # "assertion failed"
  /\ \E axis \in ObjAxes \cup {NotAnAxis} : \E angle \in ObjAngles :
       Returned("setAxisAngle", AngleAxis(angle, axis), AxisAngleRep,
                AngleAxis(angle, axis))
  /\ ops < MaxOps /\ ops' = ops + 1
  /\ Untouched

\* a.fromRotationVector(vector);  : the two asserts, then mRepData = vector
CallFromRotationVector ==
  /\ objs["a"] # Nil /\ objs["a"].rep = RotationVectorRep /\ last.op # "assertion failed"
  /\ RepDataOf("a") # IllFormed
  /\ \E vector \in RawMatrices :
       IF cols(vector) = 1
         THEN Returned("fromRotationVector", vector, RotationVectorRep, vector)
         ELSE AssertionFailed("fromRotationVector", vector)
  /\ ops < MaxOps /\ ops' = ops + 1
  /\ Untouched

\* SO3RotationVector::operator=(const Eigen::MatrixBase<Derived>& matrix):
\* the argument is handed to the conversion from a rotation matrix, whose
\* parameter is a 3x3 matrix.  A 3x3 argument is passed through log; for a
\* 3x1 argument the Eigen matrix of the parameter cannot be built from it
\* (fixed sizes that differ), and the statement is ill-formed.
RotationVector_assign_matrix(matrix) ==
  IF cols(matrix) = 3
    THEN rep_convert_impl(RotationMatrixRep, RotationVectorRep, matrix).data
    ELSE IllFormed

\* a = matrix;
AssignMatrix ==
  /\ objs["a"] # Nil /\ objs["a"].rep = RotationVectorRep /\ last.op # "assertion failed"
  /\ RepDataOf("a") # IllFormed
  /\ \E matrix \in RawMatrices :
       Returned("operator=(matrix)", matrix, RotationVectorRep,
                RotationVector_assign_matrix(matrix))
  /\ ops < MaxOps /\ ops' = ops + 1
  /\ Untouched

NextRaw ==
  \/ ConstructAxisAngle \/ ConstructRotationVector
  \/ CallSetAxis \/ CallSetAxisAngle \/ CallFromRotationVector \/ AssignMatrix

SpecRaw == InitObjects /\ [][NextRaw]_vars

(***************************************************************************)
(* model3d::Skeleton: elements are added, the skeleton is initialized and  *)
(* its state is set                                                        *)
(***************************************************************************)
\* elements are added while the five lists hold fewer than MaxElements
\* entries together
MaxElements == 4

\* the number of calls of initSkel and setState in a run
MaxCalls == 3

\* b->getJointIn()
getJointIn(b) == CASE b = "n1" -> "j1" [] b = "n2" -> "j2"

\* t->getDof(i), for i below t->getNumDofs()
getDofs(t) == CASE t = "t1" -> <<"q1">> [] t = "t2" -> <<"q2", "q3">>

\* b->getMass()
getMass(b) == CASE b = "n1" -> 1 [] b = "n2" -> 2

\* the sum of getMass() over a list of nodes
RECURSIVE SumMass(_)
SumMass(nodes) ==
  IF nodes = <<>> THEN 0 ELSE getMass(Head(nodes)) + SumMass(Tail(nodes))

\* Skeleton::Skeleton() sets mMass; the lists are empty, the dofs hold the
\* values they were made with, no element has a model index yet (-1)
InitSkeleton ==
  /\ A = Nil
  /\ Blank
  /\ NoObjects
  /\ skel = [mNodes |-> <<>>, mJoints |-> <<>>, mDofs |-> <<>>, mTransforms |-> <<>>,
             mHandles |-> <<>>, mMass |-> 0, mCurrState |-> <<>>,
             nDofs |-> 0, nNodes |-> 0, nHandles |-> 0, call |-> [op |-> "Skeleton"]]
  /\ \E v \in {0, 1} :
       elems = [mModelIndex |-> [e \in {"n1", "n2", "j1", "j2", "q1", "q2", "q3",
                                        "t1", "t2", "h1"} |-> -1],
                mValue |-> [q \in {"q1", "q2", "q3"} |-> IF q = "q1" THEN v ELSE 0],
                mHandles |-> [b \in {"n1", "n2"} |-> <<>>],
                updates |-> 0]

\* the skeleton and its elements after a call
Called(w, call) ==
  /\ skel' = [w.skel EXCEPT !.call = call]
  /\ elems' = w.elems
  /\ UNCHANGED <<A, pc, mid, back, via>> /\ UNCHANGED groupVars
  /\ UNCHANGED <<heap, objs, last>>

\* Skeleton::addJoint
addJoint(w, _j) ==
  [w EXCEPT !.skel.mJoints = Append(@, _j),
            !.elems.mModelIndex[_j] = Len(w.skel.mJoints)]

\* Skeleton::addDof (setVariable() marks the dof, which nothing here reads)
addDof(w, q) ==
  [w EXCEPT !.skel.mDofs = Append(@, q),
            !.elems.mModelIndex[q] = Len(w.skel.mDofs)]

\* more elements may be added
MayAdd ==
  Len(skel.mNodes) + Len(skel.mJoints) + Len(skel.mDofs) + Len(skel.mTransforms)
    + Len(skel.mHandles) < MaxElements

\* skel.addHandle(_h);  the handle h1 is on node n1
AddHandle ==
  /\ MayAdd /\ UNCHANGED ops
  /\ \E _h \in {"h1"} :
       Called([skel |-> [skel EXCEPT !.mHandles = Append(@, _h)],
               elems |-> [elems EXCEPT !.mModelIndex[_h] = Len(skel.mHandles),
                                       !.mHandles["n1"] = Append(@, _h)]],
              [op |-> "addHandle"])

\* skel.addNode(b);
AddNode ==
  /\ MayAdd /\ UNCHANGED ops
  /\ \E b \in {"n1", "n2"} :
       Called(addJoint([skel |-> [skel EXCEPT !.mNodes = Append(@, b)],
                        elems |-> [elems EXCEPT !.mModelIndex[b] = Len(skel.mNodes)]],
                       getJointIn(b)),
              [op |-> "addNode"])

\* skel.addJoint(_j);
AddJoint ==
  /\ MayAdd /\ UNCHANGED ops
  /\ \E _j \in {"j1"} :
       Called(addJoint([skel |-> skel, elems |-> elems], _j), [op |-> "addJoint"])

\* skel.addDof(q);
AddDof ==
  /\ MayAdd /\ UNCHANGED ops
  /\ \E q \in {"q1"} :
       Called(addDof([skel |-> skel, elems |-> elems], q), [op |-> "addDof"])

\* skel.addTransform(t);
AddTransform ==
  /\ MayAdd /\ UNCHANGED ops
  /\ \E t \in {"t1", "t2"} :
       LET w0 == [skel |-> [skel EXCEPT !.mTransforms = Append(@, t)],
                  elems |-> [elems EXCEPT !.mModelIndex[t] = Len(skel.mTransforms)]]
           w1 == addDof(w0, getDofs(t)[1])
           w2 == IF Len(getDofs(t)) > 1 THEN addDof(w1, getDofs(t)[2]) ELSE w1
       IN  Called(w2, [op |-> "addTransform"])

\* skel.initSkel();  on a skeleton that has a node (mRoot = mNodes[0]).
\* setSkel, setDependDofMap and init write fields of the nodes that no
\* operation of the skeleton reads.
InitSkel ==
  /\ ops < MaxCalls /\ ops' = ops + 1
  /\ Len(skel.mNodes) > 0
  /\ Called([skel |-> [skel EXCEPT
                         !.nDofs = Len(skel.mDofs),
                         !.nNodes = Len(skel.mNodes),
                         !.nHandles = Len(skel.mHandles),
                         !.mMass = @ + SumMass(skel.mNodes),
                         !.mCurrState = [i \in 1..Len(skel.mDofs) |->
                                           elems.mValue[skel.mDofs[i]]]],
             elems |-> elems],
            [op |-> "initSkel"])

\* the value each dof holds after mDofs.at(i)->setValue(state[i]) for
\* i = 0 .. nDofs-1 in turn
ValuesSet(state) ==
  [q \in DOMAIN elems.mValue |->
     IF \E i \in 1..skel.nDofs : skel.mDofs[i] = q
       THEN state[CHOOSE i \in 1..skel.nDofs :
                    /\ skel.mDofs[i] = q
                    /\ \A j \in 1..skel.nDofs : skel.mDofs[j] = q => j <= i]
       ELSE elems.mValue[q]]

\* skel.setState(state);  with state an Eigen::VectorXd of size nDofs (the
\* assert), entry 0 being first and the other entries rest
SetStateVectorXd ==
  /\ ops < MaxCalls /\ ops' = ops + 1
  /\ skel.call.op \notin {"Skeleton"} /\ skel.nNodes > 0
  /\ \E first \in {0, 1} : \E rest \in {0, 1} :
       LET state == [i \in 1..skel.nDofs |-> IF i = 1 THEN first ELSE rest]
           call == [op |-> "setState(VectorXd)", state |-> state,
                    mCurrState |-> skel.mCurrState, elems |-> elems]
       IN  IF \A k \in 1..skel.nDofs : skel.mCurrState[k] = state[k]
             THEN Called([skel |-> skel, elems |-> elems], call)
             ELSE Called([skel |-> [skel EXCEPT !.mCurrState = state],
                          elems |-> [elems EXCEPT !.mValue = ValuesSet(state),
                                                  !.updates = @ + skel.nNodes]],
                         call)

\* skel.setState(state);  with state a std::vector<double>.  k is the first
\* index at which state differs from mCurrState, and the loop over i assigns
\* mCurrState[k] = state.at(i): entry k ends as the last entry of state, the
\* other entries are kept.
SetStateVector ==
  /\ ops < MaxCalls /\ ops' = ops + 1
  /\ skel.call.op \notin {"Skeleton"} /\ skel.nNodes > 0
  /\ \E first \in {0, 1} : \E rest \in {0, 1} :
       LET state == [i \in 1..skel.nDofs |-> IF i = 1 THEN first ELSE rest]
           call == [op |-> "setState(vector)", state |-> state,
                    mCurrState |-> skel.mCurrState, elems |-> elems]
       IN  IF \A k \in 1..skel.nDofs : skel.mCurrState[k] = state[k]
             THEN Called([skel |-> skel, elems |-> elems], call)
             ELSE LET k == CHOOSE k \in 1..skel.nDofs :
                             /\ skel.mCurrState[k] # state[k]
                             /\ \A j \in 1..(k - 1) : skel.mCurrState[j] = state[j]
                  IN  Called([skel |-> [skel EXCEPT !.mCurrState[k] = state[skel.nDofs]],
                              elems |-> [elems EXCEPT !.mValue = ValuesSet(state),
                                                      !.updates = @ + skel.nNodes]],
                             call)

NextSkeleton ==
  \/ AddHandle \/ AddNode \/ AddJoint \/ AddDof \/ AddTransform
  \/ InitSkel \/ SetStateVectorXd \/ SetStateVector

SpecSkeleton == InitSkeleton /\ [][NextSkeleton]_vars

(***************************************************************************)
(* Properties                                                              *)
(***************************************************************************)
ToCanonical(R) == rep_convert_to_canonical_impl(R.rep, R.data)

\* The rotation of R is the identity or a quarter turn.  The conversions
\* decide the sign of a quaternion, and with it the sign of an axis, on the
\* sign of w and of the trace of the matrix; for a half turn (w = 0) and a
\* third of a turn (trace = 0) rounding decides them in the code.  A claim
\* about raw data is refuted only on runs all of whose values are Stable,
\* where the exact values decide as the code does.
Stable(R) == Trace(ToCanonical(R)) > 0

\* C1: converting a Stable value A to any representation and back gives a
\* value that isApprox reports equal to A (same representation, raw data
\* compared).
RoundTripIsApprox == (pc = "back" /\ Stable(A)) => group_is_approx_impl(back, A)

\* C2: every conversion preserves the orientation: the converted value, and
\* the value converted back, have the canonical matrix of A; and the result
\* of a conversion has the canonical matrix of the two-hop result
\* from_canonical(To, to_canonical(From, x)).
ConversionPreservesOrientation ==
  /\ pc \in {"converted", "back"} =>
       /\ ToCanonical(mid) = ToCanonical(A)
       /\ ToCanonical(mid) =
            rep_convert_to_canonical_impl(mid.rep,
              rep_convert_from_canonical_impl(mid.rep, ToCanonical(A)))
  /\ pc = "back" => ToCanonical(back) = ToCanonical(A)

\* a shortcut has converted an AxisAngle of negative angle
ShortcutConvertedNegativeAngle ==
  /\ pc = "converted"
  /\ via = "direct"
  /\ A.rep = AxisAngleRep
  /\ A.data.angle < 0
  /\ mid.rep = RotationVectorRep

Associativity ==
  (pc = "A_BC" /\ \A R \in {A, B, C, AB, BC, AB_C, A_BC} : Stable(R)) =>
    group_is_approx_impl(AB_C, A_BC)

\* C5: for a Stable value A, A * A.getInverse() is approximately equal to
\* the identity value of A's representation obtained by setIdentity(),
\* whatever axis that identity value carries.
InverseConsistency ==
  (pc = "Idv" /\ Idv.rep = A.rep /\ Stable(A)) => group_is_approx_impl(Prod, Idv)

\* C6: for a Stable value A, A * I and I * A are approximately equal to A,
\* for the identity value I of any representation.
IdentityFixedPoint ==
  (pc = "IA" /\ Stable(A)) =>
    group_is_approx_impl(AI, A) /\ group_is_approx_impl(IA, A)

\* C7: for Stable values A and B of one representation, A.isApprox(B) has
\* the verdict of the comparison of the same two orientations with B held in
\* any other representation.
IsApproxEncodingIndependent ==
  (pc = "approx" /\ A.rep = B.rep /\ Stable(A) /\ Stable(B)) =>
    \A R2 \in SO3Representation \ {A.rep} :
      verdict = rep_is_approx_impl(A.rep, R2, A.data,
                                   rep_convert_impl(B.rep, R2, B.data).data)

\* the pairs of representations with a specialization of rep_convert_impl
Shortcuts ==
  {<<AxisAngleRep, RotationVectorRep>>, <<RotationVectorRep, AxisAngleRep>>,
   <<AxisAngleRep, QuaternionRep>>, <<QuaternionRep, AxisAngleRep>>}

DirectFormula(RepFrom, RepTo, x) ==
  CASE RepFrom = AxisAngleRep /\ RepTo = RotationVectorRep -> ScaleAxis(x.angle, x.axis)
    [] RepFrom = RotationVectorRep /\ RepTo = AxisAngleRep -> convert_RotationVector_AxisAngle(x)
    [] RepFrom = AxisAngleRep /\ RepTo = QuaternionRep -> AngleAxisToQuaternion(x)
    [] RepFrom = QuaternionRep /\ RepTo = AxisAngleRep -> QuaternionToAngleAxis(x)

Routed(RepFrom, RepTo, x, out, route) ==
  /\ RepFrom = RepTo => route = "same" /\ out = x
  /\ <<RepFrom, RepTo>> \in Shortcuts =>
       route = "direct" /\ out = DirectFormula(RepFrom, RepTo, x)
  /\ (RepFrom # RepTo /\ <<RepFrom, RepTo>> \notin Shortcuts) =>
       /\ route = "canonical"
       /\ out = rep_convert_from_canonical_impl(RepTo,
                  rep_convert_to_canonical_impl(RepFrom, x))
  /\ RepFrom = RotationMatrixRep => rep_convert_to_canonical_impl(RepFrom, x) = x
  /\ RepTo = RotationMatrixRep => rep_convert_from_canonical_impl(RepTo, out) = out

\* C8: a conversion returns its input for From = To, the direct formula for
\* the four shortcut pairs and only for them, and
\* from_canonical(To, to_canonical(From, x)) for every other pair.
RoutingTable ==
  /\ pc = "converted" => Routed(A.rep, mid.rep, A.data, mid.data, via)
  /\ pc = "back" => Routed(mid.rep, A.rep, mid.data, back.data, via)

\* each of the three kinds of route was taken
RoutedEveryWay ==
  /\ pc = "converted"
  /\ \/ via = "same" /\ A.rep = AxisAngleRep
     \/ via = "direct" /\ A.rep = QuaternionRep /\ mid.rep = AxisAngleRep
     \/ via = "canonical" /\ A.rep = RotationMatrixRep /\ mid.rep = RotationVectorRep

UnitQuaternion(q) ==
  QAdd(QAdd(QAdd(QMul(q.w, q.w), QMul(q.x, q.x)), QMul(q.y, q.y)), QMul(q.z, q.z)) = QInt(1)

\* C9: RotationVector -> Quaternion is exp followed by matrix -> quaternion,
\* Quaternion -> RotationVector is quaternion -> matrix followed by log; the
\* result is a unit quaternion (respectively a rotation vector) of the same
\* rotation as the input.
RotationVectorQuaternionThroughCanonical ==
  /\ (pc = "converted" /\ A.rep = RotationVectorRep /\ mid.rep = QuaternionRep) =>
       /\ via = "canonical"
       /\ mid.data = MatrixToQuaternion(exp(A.data))
       /\ UnitQuaternion(mid.data)
       /\ QuaternionToMatrix(mid.data) = exp(A.data)
  /\ (pc = "converted" /\ A.rep = QuaternionRep /\ mid.rep = RotationVectorRep) =>
       /\ via = "canonical"
       /\ mid.data = log(QuaternionToMatrix(A.data))
       /\ exp(mid.data) = QuaternionToMatrix(A.data)

\* a rotation vector other than zero was converted to a quaternion
RotationVectorConvertedToQuaternion ==
  /\ pc = "converted"
  /\ A.rep = RotationVectorRep
  /\ A.data.v # <<0, 0, 0>>
  /\ mid.rep = QuaternionRep

\* the product of A and B by the generic specialization
CanonicalProduct(Ra, Rb) ==
  rep_convert_from_canonical_impl(Ra.rep, MatMul(ToCanonical(Ra), ToCanonical(Rb)))

InPlaceAgreesWithMultiplication ==
  (pc = "inplace" /\ \A i \in 1..2 : pre[i].rep \in {AxisAngleRep, RotationVectorRep}) =>
    LET p == group_multiplication_impl(pre[1], pre[2])
    IN  /\ A = Value(p)
        /\ via = p.via
        /\ B = pre[2]

\* C12: A.isApprox(B) compares the raw data when A and B have one
\* representation and the canonical matrices when they have two; a value
\* and its conversion to any representation are reported equal.
IsApproxDispatch ==
  pc = "approx" =>
    /\ A.rep = B.rep => verdict = EigenIsApprox(A.rep, A.data, B.data)
    /\ A.rep # B.rep =>
         verdict = EigenIsApprox(RotationMatrixRep, ToCanonical(A), ToCanonical(B))
    /\ (\E R2 \in SO3Representation :
          B = SO3(R2, rep_convert_impl(A.rep, R2, A.data).data)) => verdict = TRUE

\* a rotation vector other than zero was compared with its conversion to a
\* quaternion
ComparedWithOwnConversion ==
  /\ pc = "approx"
  /\ A.rep = RotationVectorRep
  /\ A.data.v # <<0, 0, 0>>
  /\ B = SO3(QuaternionRep, rep_convert_impl(A.rep, QuaternionRep, A.data).data)
  /\ verdict = TRUE

\* C13: getInverse() leaves the receiver as it was and returns, for an
\* AxisAngle, the angle negated with the axis unchanged and, for a
\* RotationVector, every component negated; invert() leaves in the receiver
\* exactly the value getInverse() returned; invert() twice restores the raw
\* data.
InversionClosedForms ==
  /\ (pc = "Inv" /\ A.rep = AxisAngleRep) =>
       /\ A = pre[1]
       /\ Inv.rep = A.rep
       /\ Inv.data.angle = -A.data.angle
       /\ Inv.data.axis = A.data.axis
  /\ (pc = "Inv" /\ A.rep = RotationVectorRep) =>
       /\ A = pre[1]
       /\ Inv.rep = A.rep
       /\ Inv.data.r = A.data.r
       /\ \A i \in 1..3 : Inv.data.v[i] = -A.data.v[i]
  /\ pc = "inverted" => A = Inv
  /\ pc = "inverted2" => A = pre[1]

\* an AxisAngle of negative angle about an axis other than x was inverted
\* twice
InvertedTwice ==
  /\ pc = "inverted2"
  /\ A.rep = AxisAngleRep
  /\ A.data.angle < 0
  /\ A.data.axis # UnitX
  /\ Inv # A

\* C14: for an AxisAngle or RotationVector A, the canonical matrix of
\* A.getInverse() is the transpose of the canonical matrix of A, on the
\* closed-form branch of exp and on its small-angle branch.
InversionIsTranspose ==
  (pc = "Inv" /\ A.rep \in {AxisAngleRep, RotationVectorRep}) =>
    ToCanonical(Inv) = Transpose(ToCanonical(A))

\* a rotation vector whose rotation is not its own inverse was inverted
InvertedRotationVector ==
  /\ pc = "Inv"
  /\ A.rep = RotationVectorRep
  /\ ToCanonical(A) # Transpose(ToCanonical(A))

\* C16: isIdentity() is true of an AxisAngle iff its angle is 0, whatever
\* its axis, and of a RotationVector iff its vector is (0,0,0); it is true
\* after setIdentity().
IsIdentityExact ==
  /\ (pc = "isIdentity" /\ A.rep = AxisAngleRep) => (verdict <=> A.data.angle = 0)
  /\ (pc = "isIdentity" /\ A.rep = RotationVectorRep) =>
       (verdict <=> \A i \in 1..3 : A.data.v[i] = 0)
  /\ pc = "isIdentityIdv" => verdict = TRUE

\* isIdentity() was asked of an AxisAngle set to the identity that keeps an
\* axis other than x
IsIdentityAskedAfterSetIdentity ==
  /\ pc = "isIdentityIdv"
  /\ Idv.rep = AxisAngleRep
  /\ Idv.data.axis # UnitX
  /\ B.data.angle # 0

\* C17: the RotationVector -> AxisAngle shortcut gives, for a vector v of
\* norm > 0, the angle |v| and the unit axis v/|v|, and for the zero vector
\* the angle 0 and the axis (1,0,0); every input has a result.
RotationVectorToAxisAngle ==
  (pc = "converted" /\ A.rep = RotationVectorRep /\ mid.rep = AxisAngleRep) =>
    /\ via = "direct"
    /\ A.data.v # <<0, 0, 0>> =>
         /\ mid.data.angle > 0
         /\ mid.data.angle * mid.data.angle * A.data.r = Dot(A.data.v, A.data.v)
         /\ mid.data.axis \in Axes
         /\ AxisSq(mid.data.axis) = A.data.r
         /\ \A i \in 1..3 : mid.data.angle * mid.data.axis[i] = A.data.v[i]
    /\ A.data.v = <<0, 0, 0>> => mid.data = AngleAxis(0, UnitX)

\* the zero vector was converted to an AxisAngle
ZeroVectorConverted ==
  /\ pc = "converted"
  /\ A = SO3(RotationVectorRep, RotVec(<<0, 0, 0>>, 1))
  /\ mid.rep = AxisAngleRep

\* C18: the AxisAngle -> RotationVector shortcut returns angle * axis; an
\* AxisAngle of angle 0 converts to the vector (0,0,0) whatever its axis,
\* and that vector converts back to the angle 0 with the axis (1,0,0).
ZeroAngleToZeroVector ==
  /\ (pc \in {"converted", "back"} /\ A.rep = AxisAngleRep /\ mid.rep = RotationVectorRep) =>
       /\ \A i \in 1..3 : mid.data.v[i] = A.data.angle * A.data.axis[i]
       /\ A.data.angle = 0 => mid.data = RotVec(<<0, 0, 0>>, 1)
  /\ (pc = "back" /\ A.rep = AxisAngleRep /\ mid.rep = RotationVectorRep
        /\ A.data.angle = 0) =>
       back.data = AngleAxis(0, UnitX)

\* an AxisAngle of angle 0 about an axis other than x went to a
\* RotationVector and back
ZeroAngleRoundTrip ==
  /\ pc = "back"
  /\ A.rep = AxisAngleRep
  /\ A.data.angle = 0
  /\ A.data.axis # UnitX
  /\ mid.rep = RotationVectorRep

\* the operations that write the raw data of an object that exists
Mutations ==
  {"assign", "setAxisAngle", "setAxis", "setAngle", "setRotationVector", "setRandom",
   "setIdentity", "invert", "mulInPlace"}

\* C15: a default-constructed AxisAngle has the angle 0, a default-constructed
\* RotationVector the vector (0,0,0), and isIdentity() is true of both.
DefaultConstructedIsIdentity ==
  last.op = "default" =>
    /\ isIdentity(ValueOf(last.target))
    /\ objs[last.target].rep = AxisAngleRep => RepDataOf(last.target).angle = 0
    /\ objs[last.target].rep = RotationVectorRep =>
         RepDataOf(last.target) = RotVec(<<0, 0, 0>>, 1)

\* C19: a mutation of one of a and b, where b was copy-constructed,
\* assigned or converted from a, leaves the raw data of the other as it was.
NoReferenceSemantics ==
  last.op \in Mutations =>
    /\ objs[Other(last.target)].ref # objs[last.target].ref
    /\ RepDataOf(Other(last.target)) = last.before[objs[Other(last.target)].ref]

\* the copy b of a was given another angle than a has
CopyMutated ==
  /\ last.op = "setAngle"
  /\ last.target = "b"
  /\ objs["b"].rep = objs["a"].rep
  /\ RepDataOf("b") # last.before[objs["b"].ref]
  /\ RepDataOf("b") # RepDataOf("a")

\* C20: every AxisAngle object has a unit-norm axis or the angle 0, callers
\* passing unit-norm axes only.
AxisAngleInvariant ==
  \A o \in {"a", "b"} :
    (objs[o] # Nil /\ objs[o].rep = AxisAngleRep) =>
      (RepDataOf(o).axis \in Axes \/ RepDataOf(o).angle = 0)

\* C21: a constructor or setter that takes raw data and returns (no
\* assertion stopped it) leaves a value that meets the representation
\* invariant: a non-unit axis with a non-zero angle, or raw data that are
\* not 3x1, are never stored.
PreconditionViolationsAsserted ==
  last.op \in {"SO3(axis, angle)", "setAxis", "setAxisAngle",
               "SO3RotationVector(matrix)", "fromRotationVector"}
    => IF objs["a"].rep = AxisAngleRep
         THEN RepDataOf("a").axis \in Axes \/ RepDataOf("a").angle = 0
         ELSE cols(RepDataOf("a")) = 1

\* C27: a raw 3-vector v given to the constructor of a RotationVector, or
\* assigned to one with operator=, is stored unchanged.
RawVectorStoredUnchanged ==
  (last.op \in {"SO3RotationVector(matrix)", "operator=(matrix)"} /\ cols(last.arg) = 1)
    => RepDataOf("a") = last.arg

\* C22: log(exp(w)) is approximately w for every rotation vector w of norm
\* below pi (6 units), and exp(log(R)) is approximately R for every rotation
\* matrix R; for every kind K, to_canonical(K, from_canonical(K, R)) is
\* approximately R.
ExpLogInverse ==
  /\ (pc = "back" /\ A.rep = RotationVectorRep /\ mid.rep = RotationMatrixRep
        /\ norm(A.data) < 6) =>
       /\ back.data = log(exp(A.data))
       /\ EigenIsApprox(RotationVectorRep, back.data, A.data)
  /\ (pc = "back" /\ A.rep = RotationMatrixRep) =>
       /\ mid.data = rep_convert_from_canonical_impl(mid.rep, A.data)
       /\ back.data = rep_convert_to_canonical_impl(mid.rep, mid.data)
       /\ EigenIsApprox(RotationMatrixRep, back.data, A.data)

\* a rotation vector of a third of a turn went through exp and log, and a
\* matrix through log and exp
ExpThenLog ==
  /\ pc = "back"
  /\ \/ A.rep = RotationVectorRep /\ mid.rep = RotationMatrixRep /\ norm(A.data) = 4
     \/ A.rep = RotationMatrixRep /\ mid.rep = RotationVectorRep /\ A.data # Identity3

\* C23: exp has a result for every rotation vector: the closed-form
\* coefficients sin(theta)/theta and (1 - cos(theta))/theta^2 when theta > 0
\* (above eps), the Taylor coefficients otherwise, so that nothing is divided
\* by zero; and exp of the zero vector is exactly the identity matrix.
ExpTotalAndExactAtZero ==
  (pc = "converted" /\ A.rep = RotationVectorRep /\ mid.rep = RotationMatrixRep) =>
    LET theta == norm(A.data)
    IN  /\ theta = 0 => mid.data = Identity3
        /\ theta > 0 =>
             mid.data = Rodrigues([i \in 1..3 |-> A.data.v[i] \div theta], A.data.r,
                                  Cos2(theta), SinOverRoot2(A.data.r, theta))
        /\ \A i \in 1..3 : \A j \in 1..3 : mid.data.m[i][j] \in -1..1

\* the zero vector went through exp
ZeroVectorExponentiated ==
  /\ pc = "converted"
  /\ A = SO3(RotationVectorRep, RotVec(<<0, 0, 0>>, 1))
  /\ mid.rep = RotationMatrixRep

\* C24: exp of w = (0,0,pi/2) is the matrix [[0,-1,0],[1,0,0],[0,0,1]]; the
\* antisymmetric part of exp(w) is alpha times the skew matrix of w, entry
\* (1,0) minus entry (0,1) being 2*alpha*w2, (2,1) minus (1,2) 2*alpha*w0 and
\* (0,2) minus (2,0) 2*alpha*w1; and that matrix converts to the AxisAngle of
\* axis (0,0,1) and angle pi/2.
RotationDirection ==
  LET Rz == Matrix3(<< <<0, -1, 0>>, <<1, 0, 0>>, <<0, 0, 1>> >>)
  IN  /\ (pc = "converted" /\ A.rep = RotationVectorRep /\ mid.rep = RotationMatrixRep) =>
           LET theta == norm(A.data)
               M == mid.data.m
               \* 2*alpha*w[k]
               aw2(k) == IF theta = 0 THEN 0
                         ELSE SinOverRoot2(A.data.r, theta) * (A.data.v[k] \div theta)
           IN  /\ A.data = RotVec(<<0, 0, 3>>, 1) => mid.data = Rz
               /\ M[2][1] - M[1][2] = aw2(3)
               /\ M[3][2] - M[2][3] = aw2(1)
               /\ M[1][3] - M[3][1] = aw2(2)
      /\ (pc = "converted" /\ A = SO3(RotationMatrixRep, Rz) /\ mid.rep = AxisAngleRep) =>
           mid.data = AngleAxis(3, <<0, 0, 1>>)

\* the vector (0,0,pi/2) went through exp
QuarterTurnAboutZ ==
  /\ pc = "converted"
  /\ A = SO3(RotationVectorRep, RotVec(<<0, 0, 3>>, 1))
  /\ mid.rep = RotationMatrixRep

\* C25: a value and its conversion to another representation agree on
\* isIdentity(), and a value whose canonical matrix is the identity (an
\* AxisAngle of angle 2*pi, a RotationVector of norm 2*pi) is reported as
\* identity; stated for the two classes of the source.
IsIdentityAgrees ==
  (pc = "converted" /\ A.rep \in ObjectReps) =>
    /\ mid.rep \in ObjectReps => (isIdentity(A) <=> isIdentity(mid))
    /\ ToCanonical(A) = Identity3 => isIdentity(A)

\* C26: two AxisAngle values that operator== reports equal are reported
\* approximately equal by isApprox.
ExactEqualityImpliesApprox ==
  (pc = "approx" /\ A.rep = AxisAngleRep /\ B.rep = AxisAngleRep
     /\ AxisAngle_equals(A.data, B.data)) => verdict = TRUE

\* C28: after setState(s), through either overload, on a skeleton whose
\* dofs are listed once each, the current-state vector equals s entry by
\* entry and dof i holds s[i]; when s equals the current state nothing is
\* written and no node is updated.
SetStatePostcondition ==
  (/\ skel # Nil
   /\ skel.call.op \in {"setState(VectorXd)", "setState(vector)"}
   /\ \A i, j \in 1..skel.nDofs : skel.mDofs[i] = skel.mDofs[j] => i = j) =>
    /\ skel.mCurrState = skel.call.state
    /\ \A i \in 1..skel.nDofs : elems.mValue[skel.mDofs[i]] = skel.call.state[i]
    /\ skel.call.state = skel.call.mCurrState => elems = skel.call.elems

\* C29: after initSkel() the mass of the skeleton is the sum of getMass()
\* over its nodes, also when initSkel() is called again.
MassIsSumOfNodeMasses ==
  (skel # Nil /\ skel.call.op = "initSkel") => skel.mMass = SumMass(skel.mNodes)

\* C30: the element at position i of each list of the skeleton has the
\* model index i.
ModelIndexInvariant ==
  skel # Nil =>
    \A list \in {skel.mNodes, skel.mJoints, skel.mDofs, skel.mTransforms, skel.mHandles} :
      \A i \in 1..Len(list) : elems.mModelIndex[list[i]] = i - 1

====
